---- MODULE Spec2Model ----
(***************************************************************************)
(* Stock tick consumer (src/consumer/read_ticks.py) and producer           *)
(* (src/producer/send_ticks.py).                                           *)
(*                                                                         *)
(* Python values that may be of the wrong type are carried as tagged       *)
(* records: [t |-> "num", v |-> n] is the number n, [t |-> "inf"] is       *)
(* float('inf') and [t |-> "str"] is a non-numeric JSON value (a string).  *)
(* Consumer prices and volumes are small integers of either sign.         *)
(***************************************************************************)
EXTENDS Integers, Sequences, FiniteSets, TLC

\* ---------------------------------------------------------------- bounds
MaxCalls == 3        \* process_message calls in SpecMsg

MaxDelivered == 3    \* records the broker delivers to one consumer run

MaxTime == 60        \* last clock reading, in seconds since construction

MaxTicks == 3        \* generate_tick calls in SpecSim

MaxSends == 2        \* ticks one producer run generates

\* ------------------------------------------------------- python values
Num(n) == [t |-> "num", v |-> n]
Str == [t |-> "str", v |-> 0]
PyInf == [t |-> "inf", v |-> 0]

IsNum(x) == x.t # "str"

\* a < b for two numbers, float('inf') included
Lt(a, b) ==
    IF a.t = "inf" THEN FALSE
    ELSE IF b.t = "inf" THEN TRUE
    ELSE a.v < b.v

Le(a, b) == ~Lt(b, a)

\* min(a, b) and max(a, b) of Python: the first argument wins a tie
PyMin(a, b) == IF Lt(b, a) THEN b ELSE a

PyMax(a, b) == IF Lt(a, b) THEN b ELSE a

\* ------------------------------------------------------ record universe
Symbols == {"AAPL", "TSLA"}

Fields == {"symbol", "price", "timestamp", "volume"}

PriceVals == {Num(-1), Num(0), Num(2), Str}

VolumeVals == {Num(-1), Num(0), Num(5), Str}

\* a decoded message value: the keys it has, and the values under them
CompleteRecords ==
    [fields : {Fields}, symbol : Symbols, price : PriceVals, volume : VolumeVals]

PartialRecords ==
    { [fields |-> F, symbol |-> "AAPL", price |-> Num(2), volume |-> Num(5)] :
        F \in (SUBSET Fields) \ {Fields} }

Records == CompleteRecords \cup PartialRecords

NoRecord == [fields |-> {}, symbol |-> "", price |-> Num(0), volume |-> Num(0)]

WellTyped(rec) == IsNum(rec.price) /\ IsNum(rec.volume)

\* --------------------------------------------------- simulator universe
\* Simulator prices are whole numbers of 1/10000 dollar, trend coefficients
\* of 1/10000 and volatility coefficients of 1/1000; emitted prices are cents.
StockSymbols == {"AAPL", "GOOGL", "MSFT", "TSLA", "AMZN"}

InitialStocks ==
    [s \in StockSymbols |->
        CASE s = "AAPL"  -> [price |-> 1500000,  volatility |-> 20, trend |-> 1]
          [] s = "GOOGL" -> [price |-> 28000000, volatility |-> 25, trend |-> 2]
          [] s = "MSFT"  -> [price |-> 3800000,  volatility |-> 18, trend |-> 1]
          [] s = "TSLA"  -> [price |-> 2500000,  volatility |-> 40, trend |-> -1]
          [] s = "AMZN"  -> [price |-> 32000000, volatility |-> 22, trend |-> 1]]

NoTick == [fields |-> {}, symbol |-> "", price |-> 0, volume |-> 0]

VARIABLES
    \* ---- consumer (StockTickConsumer)
    c_pc,               \* where run() is: "create", "loop", "poll", "batch", "report",
                        \* "cleanup", "exited"
    c_running,          \* self.running
    consumer,           \* self.consumer: "none", "open", "closed", "close_failed"
    c_attempt,          \* attempt of the for loop in create_consumer
    c_tries,            \* KafkaConsumer(...) constructions attempted
    c_sleeps,           \* the time.sleep arguments of create_consumer, in order
    message_count,      \* self.message_count
    error_count,        \* self.error_count
    symbol_stats,       \* self.symbol_stats: a dict, so a function on the keys present
    last_stats_time,    \* self.last_stats_time
    now,                \* the last value time.time() returned
    batch,              \* message_batch: per partition, the messages not yet iterated
    reports,            \* the current_time of every snapshot print_statistics began
    c_status,           \* the status sys.exit was called with (0 when it was not)
    c_exit,             \* the exit status of the process, -1 while it runs
    final_count,        \* "Total Messages Processed" of the final statistics, -1 before
    trend,              \* change_indicator of the last display_tick
    last_msg,           \* the message of the last process_message call
    last_result,        \* how that call ended: "rejected", "ok", "exception"
    calls,              \* number of process_message calls
    fed,                \* per symbol, what well-typed complete records supplied
    observed,           \* the program has read self.running and found it False
    obs_count,          \* message_count at the first such read
    obs_calls,          \* calls at the first such read
    skipped,            \* delivered records left unprocessed by a break
    bad_payload,        \* poll has fetched a payload that is not valid JSON
    poll_result,        \* how the last consumer.poll call ended: "batch",
                        \* "commit_failed", "kafka_error", "bad_payload"
    polled,             \* the offsets of message_batch as that poll returned it
    handled,            \* the offsets given to process_message since that poll
    checks,             \* print_statistics calls since that poll
    shown_rate,         \* the success rate printed last, <<numerator, denominator>>
    c_logged,           \* "Consumer shutdown complete" was logged
    c_cleanups,         \* number of cleanup() calls
    \* ---- producer (StockTickProducer)
    p_pc,               \* where run() is: "create", "loop", "generate", "send",
                        \* "sleep", "cleanup", "exited"
    p_running,          \* self.running
    producer,           \* self.producer: "none", "open", "closed", "flush_failed",
                        \* "close_failed"
    p_attempt,          \* attempt of the for loop in create_producer
    p_tries,            \* KafkaProducer(...) constructions attempted
    p_sleeps,           \* the time.sleep arguments of create_producer, in order
    stocks,             \* self.stocks
    tick,               \* the record generate_tick returned last
    ticks,              \* number of generate_tick calls
    p_message_count,    \* self.message_count
    send_result,        \* how the last send_tick call ended: "ok", "timeout",
                        \* "kafka_error", "error"
    p_status,           \* the status sys.exit was called with (0 when it was not)
    p_exit,             \* the exit status of the process, -1 while it runs
    p_flushed,          \* cleanup's producer.flush returned
    p_logged,           \* "Producer shutdown complete" was logged
    p_cleanups,         \* number of cleanup() calls
    sends,              \* number of send_tick calls that have returned
    p_observed,         \* the while test has read self.running and found it False
    late_ticks,         \* generate_tick calls made with self.running False
    late_sends          \* send_tick calls that returned with self.running False

msgvars == <<message_count, error_count, symbol_stats, trend, last_msg, last_result,
             calls, fed>>

startvars == <<c_attempt, c_tries, c_sleeps>>

clockvars == <<last_stats_time, now, reports>>

obsvars == <<observed, obs_count, obs_calls, skipped>>

exitvars == <<c_status, c_exit, final_count>>

pollvars == <<poll_result, polled, handled, checks>>

cvars == <<c_pc, c_running, consumer, startvars, msgvars, clockvars, batch,
           exitvars, obsvars, bad_payload, pollvars, shown_rate, c_logged, c_cleanups>>

simvars == <<stocks, tick, ticks>>

pstartvars == <<p_attempt, p_tries, p_sleeps>>

sendvars == <<p_message_count, send_result>>

pexitvars == <<p_status, p_exit, p_flushed, p_logged>>

latevars == <<sends, p_observed, late_ticks, late_sends>>

pvars == <<p_pc, p_running, producer, pstartvars, simvars, sendvars, pexitvars,
           p_cleanups, latevars>>

vars == <<cvars, pvars>>

\* ----------------------------------------------------- process_message
required_fields == Fields

\* a validator that also checks the value range
HasRequiredFields_Ranged(rec) ==
    /\ \A f \in required_fields : f \in rec.fields
    /\ IsNum(rec.price) => rec.price.v > 0

HasRequiredFields(rec) == \A f \in required_fields : f \in rec.fields

NewStats ==
    [count |-> 0, total_volume |-> 0, last_price |-> Num(0),
     min_price |-> PyInf, max_price |-> Num(0)]

\* an aggregator that assigns the volume instead of adding it
Aggregate_AssignVolume(st, rec) ==
    LET s1 == [st EXCEPT !.count = @ + 1] IN
    IF ~IsNum(rec.volume) THEN [stats |-> s1, raised |-> TRUE]
    ELSE
    LET s2 == [s1 EXCEPT !.total_volume = rec.volume.v]
        s3 == [s2 EXCEPT !.last_price = rec.price]
    IN
    IF ~IsNum(rec.price) THEN [stats |-> s3, raised |-> TRUE]
    ELSE
    LET s4 == [s3 EXCEPT !.min_price = PyMin(@, rec.price)]
        s5 == [s4 EXCEPT !.max_price = PyMax(@, rec.price)]
    IN [stats |-> s5, raised |-> FALSE]

\* lines 183-187, statement by statement; an operand of the wrong type raises
\* TypeError and leaves the assignments made so far in place
Aggregate(st, rec) ==
    LET s1 == [st EXCEPT !.count = @ + 1] IN
    IF ~IsNum(rec.volume) THEN [stats |-> s1, raised |-> TRUE]
    ELSE
    LET s2 == [s1 EXCEPT !.total_volume = @ + rec.volume.v]
        s3 == [s2 EXCEPT !.last_price = rec.price]
    IN
    IF ~IsNum(rec.price) THEN [stats |-> s3, raised |-> TRUE]
    ELSE
    LET s4 == [s3 EXCEPT !.min_price = PyMin(@, rec.price)]
        s5 == [s4 EXCEPT !.max_price = PyMax(@, rec.price)]
    IN [stats |-> s5, raised |-> FALSE]

\* display_tick: the indicator is computed from self.symbol_stats as it is
\* when display_tick is called
ChangeIndicator(stats, rec) ==
    IF rec.symbol \in DOMAIN stats /\ stats[rec.symbol].count > 1
    THEN LET last_price == stats[rec.symbol].last_price IN
         IF Lt(last_price, rec.price) THEN "up"
         ELSE IF Lt(rec.price, last_price) THEN "down"
         ELSE "flat"
    ELSE "new"

WithKey(stats, symbol) ==
    IF symbol \in DOMAIN stats THEN stats
    ELSE [s \in DOMAIN stats \cup {symbol} |->
            IF s = symbol THEN NewStats ELSE stats[s]]

FedAfter(rec) ==
    IF ~HasRequiredFields(rec) \/ rec.symbol \notin DOMAIN fed THEN fed
    ELSE [fed EXCEPT ![rec.symbol] =
            IF WellTyped(rec)
            THEN [@ EXCEPT !.n = @ + 1, !.vol = @ + rec.volume.v,
                           !.prices = @ \cup {rec.price.v}]
            ELSE [@ EXCEPT !.tainted = TRUE]]

ProcessMessage(rec) ==
    /\ last_msg' = rec
    /\ calls' = calls + 1
    /\ fed' = FedAfter(rec)
    /\ IF ~HasRequiredFields(rec)
       THEN /\ last_result' = "rejected"
            /\ UNCHANGED <<message_count, error_count, symbol_stats, trend>>
       ELSE LET keyed == WithKey(symbol_stats, rec.symbol)
                agg == Aggregate(keyed[rec.symbol], rec)
                updated == [keyed EXCEPT ![rec.symbol] = agg.stats]
            IN /\ symbol_stats' = updated
               /\ IF agg.raised
                  THEN /\ error_count' = error_count + 1
                       /\ last_result' = "exception"
                       /\ UNCHANGED <<message_count, trend>>
                  ELSE /\ trend' = ChangeIndicator(updated, rec)
                       /\ message_count' = message_count + 1
                       /\ last_result' = "ok"
                       /\ UNCHANGED error_count

Init ==
    /\ message_count = 0
    /\ error_count = 0
    /\ symbol_stats = [s \in {} |-> NewStats]
    /\ trend = "none"
    /\ last_msg = NoRecord
    /\ last_result = "none"
    /\ calls = 0
    /\ fed = [s \in Symbols |-> [n |-> 0, vol |-> 0, prices |-> {}, tainted |-> FALSE]]
    /\ c_pc = "create"
    /\ c_running = TRUE
    /\ consumer = "none"
    /\ c_attempt = 0
    /\ c_tries = 0
    /\ c_sleeps = <<>>
    /\ last_stats_time = 0
    /\ now = 0
    /\ batch = <<>>
    /\ reports = <<>>
    /\ c_status = 0
    /\ c_exit = -1
    /\ final_count = -1
    /\ observed = FALSE
    /\ obs_count = 0
    /\ obs_calls = 0
    /\ skipped = 0
    /\ bad_payload = FALSE
    /\ poll_result = "none"
    /\ polled = <<>>
    /\ handled = <<>>
    /\ checks = 0
    /\ shown_rate = <<>>
    /\ c_logged = FALSE
    /\ c_cleanups = 0
    /\ p_pc = "create"
    /\ p_running = TRUE
    /\ producer = "none"
    /\ p_attempt = 0
    /\ p_tries = 0
    /\ p_sleeps = <<>>
    /\ stocks = InitialStocks
    /\ tick = NoTick
    /\ ticks = 0
    /\ p_message_count = 0
    /\ send_result = "none"
    /\ p_status = 0
    /\ p_exit = -1
    /\ p_flushed = FALSE
    /\ p_logged = FALSE
    /\ p_cleanups = 0
    /\ sends = 0
    /\ p_observed = FALSE
    /\ late_ticks = 0
    /\ late_sends = 0

\* process_message applied to one record after another, as a test of the
\* Validator and the Aggregator calls it
MsgStep ==
    /\ calls < MaxCalls
    /\ \E rec \in Records : ProcessMessage(rec)
    /\ UNCHANGED <<c_pc, c_running, consumer, startvars, clockvars, batch,
                   exitvars, obsvars, bad_payload, pollvars, shown_rate, c_logged, c_cleanups>>
    /\ UNCHANGED pvars

SpecMsg == Init /\ [][MsgStep]_vars

Marker(price, previous) ==
    IF Lt(previous, price) THEN "up"
    ELSE IF Lt(price, previous) THEN "down"
    ELSE "flat"

\* C2: for a symbol with an earlier processed tick, the marker shown for a new
\* tick compares the new price with last_price as it was before this tick's
\* update: greater is up, smaller is down, equal is flat.
C2_TrendAgainstPriorLast ==
    [][ ( /\ calls' = calls + 1
          /\ last_result' = "ok"
          /\ fed[last_msg'.symbol].n >= 1
          /\ ~fed[last_msg'.symbol].tainted )
        => trend' = Marker(last_msg'.price, symbol_stats[last_msg'.symbol].last_price)
      ]_vars

\* C4: a record that misses a required field, or holds a price or a volume of
\* the wrong type, leaves symbol_stats (its keys included) and message_count
\* as they were.
C4_InvalidLeavesStatistics ==
    [][ ( /\ calls' = calls + 1
          /\ (last_msg'.fields # Fields \/ ~WellTyped(last_msg')) )
        => (symbol_stats' = symbol_stats /\ message_count' = message_count)
      ]_vars

\* C5: validation rejects every record that misses one or more of the four
\* fields, and passes on to aggregation every record that holds all four,
\* whatever its numeric values (negative and zero ones included).
C5_ValidationByPresence ==
    [][ calls' = calls + 1 =>
        LET rec == last_msg' IN
        /\ rec.fields # Fields =>
            /\ last_result' = "rejected"
            /\ symbol_stats' = symbol_stats
        /\ rec.fields = Fields =>
            /\ last_result' # "rejected"
            /\ rec.symbol \in DOMAIN symbol_stats'
            /\ symbol_stats'[rec.symbol].count =
                 (IF rec.symbol \in DOMAIN symbol_stats
                  THEN symbol_stats[rec.symbol].count ELSE 0) + 1
            /\ WellTyped(rec) =>
                 (last_result' = "ok" /\ message_count' = message_count + 1)
      ]_vars

\* a record with a negative price and a zero volume was aggregated after a
\* record with a missing field had been rejected
C5_Witness ==
    /\ last_result = "ok"
    /\ last_msg.price = Num(-1)
    /\ last_msg.volume = Num(0)
    /\ message_count = 1
    /\ calls = 2
    /\ \A s \in Symbols : fed[s].n + (IF fed[s].tainted THEN 1 ELSE 0) <= 1

\* C15: the first valid tick of a symbol is displayed with the neutral marker,
\* whatever its price, and every later valid tick of that symbol with the up,
\* down or flat marker.
C15_FirstTickNeutral ==
    [][ (calls' = calls + 1 /\ last_result' = "ok") =>
        LET n == fed[last_msg'.symbol].n IN
        /\ n = 0 => trend' = "new"
        /\ n >= 1 => trend' \in {"up", "down", "flat"}
      ]_vars

\* C19: between two process_message calls the counts of all symbol_stats
\* entries add up to message_count, also after records that raised an error
\* part-way through.
C19_CountsAddUp ==
    LET count(s) == IF s \in DOMAIN symbol_stats THEN symbol_stats[s].count ELSE 0
    IN count("AAPL") + count("TSLA") = message_count

\* C20: for every symbol whose complete records all had a numeric price and
\* volume, min_price is the smallest and max_price the largest price supplied,
\* zero and negative prices included.
C20_RunningExtrema ==
    \A s \in Symbols :
        (fed[s].n > 0 /\ ~fed[s].tainted) =>
            LET smallest == CHOOSE x \in fed[s].prices : \A y \in fed[s].prices : x <= y
                largest == CHOOSE x \in fed[s].prices : \A y \in fed[s].prices : y <= x
            IN /\ s \in DOMAIN symbol_stats
               /\ symbol_stats[s].min_price = Num(smallest)
               /\ symbol_stats[s].max_price = Num(largest)

\* ------------------------------------------------------ create_consumer
max_retries == 5

retry_delay == 2

RECURSIVE Pow2(_)
Pow2(k) == IF k = 0 THEN 1 ELSE 2 * Pow2(k - 1)

\* a backoff that grows by retry_delay each time
RetryDelay_Linear(attempt) == retry_delay * (attempt + 1)

\* the argument of time.sleep after the failed attempt numbered attempt
RetryDelay(attempt) == retry_delay * Pow2(attempt)

\* whether a failed attempt is followed by another one
RetriesLeft(attempt) == attempt < max_retries - 1

\* one pass of the for loop of create_consumer, called from run(); the last
\* failure is re-raised into run()'s except Exception, which calls sys.exit(1)
C_CreateConsumer ==
    /\ c_pc = "create"
    /\ c_tries' = c_tries + 1
    /\ \E ok \in BOOLEAN :
        IF ok
        THEN /\ consumer' = "open"
             /\ c_pc' = "loop"
             /\ UNCHANGED <<c_attempt, c_sleeps, c_status>>
        ELSE IF RetriesLeft(c_attempt)
        THEN /\ c_sleeps' = Append(c_sleeps, RetryDelay(c_attempt))
             /\ c_attempt' = c_attempt + 1
             /\ UNCHANGED <<c_pc, consumer, c_status>>
        ELSE /\ c_status' = 1
             /\ c_pc' = "cleanup"
             /\ UNCHANGED <<consumer, c_attempt, c_sleeps>>
    /\ UNCHANGED <<c_running, msgvars, clockvars, batch, c_exit, final_count,
                   obsvars, bad_payload, pollvars, shown_rate, c_logged, c_cleanups>>
    /\ UNCHANGED pvars

\* ------------------------------------------------------- signal_handler
C_Signal ==
    /\ c_pc # "exited"
    /\ c_running
    /\ c_running' = FALSE
    /\ UNCHANGED <<c_pc, consumer, startvars, msgvars, clockvars, batch,
                   exitvars, obsvars, bad_payload, pollvars, shown_rate, c_logged, c_cleanups>>
    /\ UNCHANGED pvars

\* ------------------------------------------------------------------ run
\* the program reads self.running; the first read that finds it False is noted
Observe(flag) ==
    IF flag \/ observed THEN UNCHANGED <<observed, obs_count, obs_calls>>
    ELSE /\ observed' = TRUE
         /\ obs_count' = message_count
         /\ obs_calls' = calls

\* while self.running:
C_While ==
    /\ c_pc = "loop"
    /\ Observe(c_running)
    /\ c_pc' = IF c_running THEN "poll" ELSE "cleanup"
    /\ UNCHANGED <<c_running, consumer, startvars, msgvars, clockvars, batch,
                   exitvars, skipped, bad_payload, pollvars, shown_rate, c_logged, c_cleanups>>
    /\ UNCHANGED pvars

\* the shapes of message_batch: per partition, the offsets of its messages
BatchShapes ==
    {<<>>, <<<<1>>>>, <<<<1, 2>>>>, <<<<1>>, <<2>>>>, <<<<1, 2>>, <<3>>>>}

\* the number of messages in the partitions q
RECURSIVE SumSeq(_)
SumSeq(q) == IF q = <<>> THEN 0 ELSE Len(Head(q)) + SumSeq(Tail(q))

\* the messages of the partitions q in the order the two for loops meet them
RECURSIVE Flatten(_)
Flatten(q) == IF q = <<>> THEN <<>> ELSE Head(q) \o Flatten(Tail(q))

\* a loop that skips the reporter after a batch with messages in it
AfterBatch_SkipReport(b) == IF b = <<>> THEN "loop" ELSE "batch"

\* where run() goes when the partitions left to iterate are b
AfterBatch(b) == IF b = <<>> THEN "report" ELSE "batch"

\* message_batch = self.consumer.poll(timeout_ms=1000)
C_Poll ==
    /\ c_pc = "poll"
    /\ \E shape \in BatchShapes :
        /\ calls + skipped + SumSeq(shape) <= MaxDelivered
        /\ batch' = shape
        /\ polled' = shape
        /\ c_pc' = AfterBatch(shape)
    /\ poll_result' = "batch"
    /\ handled' = <<>>
    /\ checks' = 0
    /\ UNCHANGED <<c_running, consumer, startvars, msgvars, clockvars,
                   exitvars, obsvars, bad_payload, shown_rate, c_logged, c_cleanups>>
    /\ UNCHANGED pvars

\* a loop that gives up on a KafkaError
AfterPollError_Fatal(kind) == IF kind = "kafka_error" THEN "cleanup" ELSE "loop"

\* continue: back to the while test, past self.print_statistics()
AfterPollError(kind) == "loop"

\* poll raises CommitFailedError: logged, continue
C_PollCommitFailed ==
    /\ c_pc = "poll"
    /\ poll_result' = "commit_failed"
    /\ polled' = <<>>
    /\ handled' = <<>>
    /\ checks' = 0
    /\ c_pc' = AfterPollError("commit_failed")
    /\ UNCHANGED <<c_running, consumer, startvars, msgvars, clockvars, batch,
                   exitvars, obsvars, bad_payload, shown_rate, c_logged, c_cleanups>>
    /\ UNCHANGED pvars

\* poll raises another KafkaError: logged, time.sleep(1), continue
C_PollKafkaError ==
    /\ c_pc = "poll"
    /\ poll_result' = "kafka_error"
    /\ polled' = <<>>
    /\ handled' = <<>>
    /\ checks' = 0
    /\ c_pc' = AfterPollError("kafka_error")
    /\ UNCHANGED <<c_running, consumer, startvars, msgvars, clockvars, batch,
                   exitvars, obsvars, bad_payload, shown_rate, c_logged, c_cleanups>>
    /\ UNCHANGED pvars

\* the value_deserializer given to KafkaConsumer, json.loads(m.decode('utf-8')),
\* runs inside poll on every fetched record; on a payload that is not JSON it
\* raises json.JSONDecodeError out of poll, which is no KafkaError: run()'s
\* except Exception logs "Fatal error in consumer" and calls sys.exit(1)
C_PollBadPayload ==
    /\ c_pc = "poll"
    /\ bad_payload' = TRUE
    /\ poll_result' = "bad_payload"
    /\ polled' = <<>>
    /\ handled' = <<>>
    /\ checks' = 0
    /\ c_status' = 1
    /\ c_pc' = "cleanup"
    /\ UNCHANGED <<c_running, consumer, startvars, msgvars, clockvars, batch,
                   c_exit, final_count, obsvars, shown_rate, c_logged, c_cleanups>>
    /\ UNCHANGED pvars

\* the records process_message is given in the loop
LoopRecords ==
    { [fields |-> Fields, symbol |-> "AAPL", price |-> Num(2), volume |-> Num(5)],
      [fields |-> Fields, symbol |-> "TSLA", price |-> Num(-1), volume |-> Num(0)],
      [fields |-> Fields, symbol |-> "TSLA", price |-> Str, volume |-> Num(5)],
      [fields |-> Fields, symbol |-> "AAPL", price |-> Num(2), volume |-> Str],
      [fields |-> Fields \ {"price"}, symbol |-> "AAPL", price |-> Num(2),
       volume |-> Num(5)] }

\* a check that reads the flag and goes on
BreaksInner_Ignored(running) == FALSE

\* if not self.running: break
BreaksInner(running) == ~running

\* message_batch after the first message left in it has been iterated
Consumed(b) ==
    IF Len(Head(b)) = 1 THEN Tail(b) ELSE <<Tail(Head(b))>> \o Tail(b)

\* for message in messages: the flag is read, and found set
C_Process ==
    /\ c_pc = "batch"
    /\ batch # <<>>
    /\ ~BreaksInner(c_running)
    /\ Observe(c_running)
    /\ \E rec \in LoopRecords : ProcessMessage(rec)
    /\ handled' = Append(handled, Head(Head(batch)))
    /\ batch' = Consumed(batch)
    /\ c_pc' = AfterBatch(batch')
    /\ UNCHANGED <<c_running, consumer, startvars, clockvars, exitvars, skipped,
                   bad_payload, poll_result, polled, checks, shown_rate, c_logged, c_cleanups>>
    /\ UNCHANGED pvars

\* the break leaves the inner for loop only: the outer one goes on to the
\* next partition, whose first message meets the same check
C_Break ==
    /\ c_pc = "batch"
    /\ batch # <<>>
    /\ BreaksInner(c_running)
    /\ Observe(c_running)
    /\ skipped' = skipped + Len(Head(batch))
    /\ batch' = Tail(batch)
    /\ c_pc' = AfterBatch(batch')
    /\ UNCHANGED <<c_running, consumer, startvars, msgvars, clockvars, exitvars,
                   bad_payload, pollvars, shown_rate, c_logged, c_cleanups>>
    /\ UNCHANGED pvars

\* ----------------------------------------------------- print_statistics
stats_interval == 30

\* time.time() never goes back; it is read on a grid of ten seconds
Deltas == {0, 10, 20, 30}

\* a reporter that waits for more than the interval
ShouldReport_Strict(elapsed) == elapsed > stats_interval

ShouldReport(elapsed) == elapsed >= stats_interval

\* f"${stats['last_price']:.2f}" raises ValueError on a string: the snapshot
\* stops after its header and totals, last_stats_time keeps its value, and
\* run()'s except Exception calls sys.exit(1)
Printable(stats) == \A s \in DOMAIN stats : IsNum(stats[s].last_price)

\* (message_count - error_count) / max(1, message_count) * 100, kept as the
\* fraction <<numerator, denominator>>
SuccessRate(processed, errors) ==
    <<(processed - errors) * 100, IF processed > 1 THEN processed ELSE 1>>

C_PrintStatistics ==
    /\ c_pc = "report"
    /\ checks' = checks + 1
    /\ \E d \in Deltas :
        LET current_time == now + d
            elapsed == current_time - last_stats_time
        IN /\ current_time <= MaxTime
           /\ now' = current_time
           /\ IF ~ShouldReport(elapsed)
              THEN /\ c_pc' = "loop"
                   /\ UNCHANGED <<last_stats_time, reports, c_status, shown_rate>>
              ELSE IF Printable(symbol_stats)
              THEN /\ reports' = Append(reports, current_time)
                   /\ shown_rate' = SuccessRate(message_count, error_count)
                   /\ last_stats_time' = current_time
                   /\ c_pc' = "loop"
                   /\ UNCHANGED c_status
              ELSE /\ reports' = Append(reports, current_time)
                   /\ shown_rate' = SuccessRate(message_count, error_count)
                   /\ c_status' = 1
                   /\ c_pc' = "cleanup"
                   /\ UNCHANGED last_stats_time
    /\ UNCHANGED <<c_running, consumer, startvars, msgvars, batch, c_exit,
                   final_count, obsvars, bad_payload, poll_result, polled,
                   handled, c_logged, c_cleanups>>
    /\ UNCHANGED pvars

\* -------------------------------------------------------------- cleanup
\* print(f"Total Messages Processed: {self.message_count}")
FinalCount == message_count

\* a cleanup without the try around the close calls
CloseCaught_Not(outcome) == outcome = "closed"

\* except Exception as e: "Error closing consumer" / "Error closing producer":
\* whether cleanup goes on after the close calls ended as outcome
CloseCaught(outcome) == TRUE

\* cleanup: an exception of close is logged; then the final statistics are
\* printed, the success rate only if message_count > 0, and "Consumer shutdown
\* complete" is logged; were the exception not caught it would leave the
\* finally block and end the process with status 1
C_Cleanup ==
    /\ c_pc = "cleanup"
    /\ \E outcome \in IF consumer = "open" THEN {"closed", "close_failed"}
                      ELSE {consumer} :
        /\ consumer' = outcome
        /\ IF CloseCaught(outcome)
           THEN /\ final_count' = FinalCount
                /\ shown_rate' = IF message_count > 0
                                 THEN SuccessRate(message_count, error_count)
                                 ELSE shown_rate
                /\ c_logged' = TRUE
                /\ c_exit' = c_status
           ELSE /\ c_exit' = 1
                /\ UNCHANGED <<final_count, shown_rate, c_logged>>
    /\ c_cleanups' = c_cleanups + 1
    /\ c_pc' = "exited"
    /\ UNCHANGED <<c_running, startvars, msgvars, clockvars, batch, c_status,
                   obsvars, bad_payload, pollvars>>
    /\ UNCHANGED pvars

Next ==
    \/ C_CreateConsumer
    \/ C_Signal
    \/ C_While
    \/ C_Poll
    \/ C_PollCommitFailed
    \/ C_PollKafkaError
    \/ C_PollBadPayload
    \/ C_Process
    \/ C_Break
    \/ C_PrintStatistics
    \/ C_Cleanup

Spec == Init /\ [][Next]_vars

\* ----------------------------------------------------- consumer run claims
\* C3: a record rejected for a missing field is dropped, error_count goes up
\* by one, and the loop goes on with the batch.
C3_RejectionCounted ==
    [][ (calls' = calls + 1 /\ last_msg'.fields # Fields) =>
          /\ symbol_stats' = symbol_stats
          /\ message_count' = message_count
          /\ error_count' = error_count + 1
          /\ c_pc' \in {"batch", "report"}
      ]_vars

\* C7: print_statistics emits a snapshot exactly when the time read minus
\* last_stats_time is at least stats_interval, and a call that returns after
\* emitting has set last_stats_time to the time read; so two snapshots are
\* never less than one interval apart, the first one never less than one
\* interval after construction.
C7_ReportSpacing ==
    /\ Len(reports) >= 1 => reports[1] >= 30
    /\ \A i \in 1..(Len(reports) - 1) : reports[i + 1] - reports[i] >= 30
    /\ last_stats_time <= now
    /\ c_pc \notin {"cleanup", "exited"} =>
         last_stats_time = (IF reports = <<>> THEN 0 ELSE reports[Len(reports)])

C7_ReportStep ==
    IF c_pc = "report"
    THEN /\ now' - last_stats_time >= 30 <=> reports' = Append(reports, now')
         /\ now' - last_stats_time < 30 <=> reports' = reports
         /\ now' - last_stats_time < 30 => last_stats_time' = last_stats_time
         /\ (now' - last_stats_time >= 30 /\ c_pc' = "loop") => last_stats_time' = now'
    ELSE reports' = reports /\ last_stats_time' = last_stats_time /\ now' = now

C8_StopAtObservation ==
    observed =>
        /\ ~c_running
        /\ c_pc # "poll"
        /\ calls = obs_calls
        /\ message_count = obs_count
        /\ c_pc = "exited" => final_count = obs_count

\* the flag was set inside a batch: one record was processed, two records of
\* two partitions were left, and the final statistics show one message
C8_Witness ==
    /\ c_pc = "exited"
    /\ observed
    /\ obs_count = 1
    /\ calls = 1
    /\ skipped = 2
    /\ final_count = 1
    /\ c_exit = 0

\* C9: a payload that is not valid JSON costs one record: error_count goes up
\* by one and the Processor keeps polling.
C9_BadPayloadIsPerRecord ==
    [][ (bad_payload' /\ ~bad_payload) =>
          /\ error_count' = error_count + 1
          /\ c_status' = 0
          /\ c_pc' \notin {"cleanup", "exited"}
      ]_vars

\* C12: a CommitFailedError or another KafkaError raised by poll does not end
\* the loop: message_count, error_count and symbol_stats keep their values, no
\* exit status is set, and with running true the next step of the loop is
\* another poll.
C12_PollErrorStep ==
    /\ (c_pc = "poll" /\ c_pc' # "poll"
          /\ poll_result' \in {"commit_failed", "kafka_error"}) =>
         /\ c_pc' = "loop"
         /\ UNCHANGED <<message_count, error_count, symbol_stats>>
         /\ c_status' = 0
         /\ c_running' = c_running
    /\ (c_pc = "loop" /\ c_pc' # "loop" /\ c_running) => c_pc' = "poll"

C12_PollErrorNotFatal == [][C12_PollErrorStep]_vars

\* a KafkaError after one processed record, and the loop back at poll with
\* the counters of before
C12_Witness ==
    /\ poll_result = "kafka_error"
    /\ c_pc = "poll"
    /\ message_count = 1
    /\ calls = 1
    /\ c_running

\* C13: once a termination signal has been delivered to a Processor inside
\* its main loop, the run ends cleanly: no fatal error path is taken, and the
\* cleanup that follows the loop prints the final statistics and exits with
\* status 0.
C13_AfterSignalStep ==
    /\ (~c_running /\ c_pc \in {"loop", "poll", "batch", "report"}) =>
         /\ c_status' = 0
         /\ c_pc' \in {"loop", "poll", "batch", "report", "cleanup"}
    /\ (~c_running /\ c_pc = "cleanup" /\ c_status = 0) =>
         (c_pc' = "exited" => c_exit' = 0 /\ final_count' = message_count)

C13_SignalEndsInCleanExit == [][C13_AfterSignalStep]_vars

\* C17 as stated: when a poll is about to be issued after an earlier one, the
\* reporter has been checked exactly once since that earlier poll, and the
\* records that poll returned have all been given to process_message, one at
\* a time in the order of delivery.
C17_OneCheckBetweenPolls ==
    /\ handled = SubSeq(Flatten(polled), 1, Len(handled))
    /\ (c_pc = "poll" /\ poll_result # "none") =>
         (checks = 1 /\ handled = Flatten(polled))

\* C17 as amended: the same between two polls of which the earlier returned
\* (an empty batch included); the reporter is checked only once the batch has
\* been iterated.
C17_OneCheckAfterReturnedPoll ==
    /\ handled = SubSeq(Flatten(polled), 1, Len(handled))
    /\ checks \in {0, 1}
    /\ (c_pc = "report" \/ checks = 1) => (batch = <<>> /\ poll_result = "batch")
    /\ (c_pc = "poll" /\ poll_result = "batch") =>
         (checks = 1 /\ handled = Flatten(polled))

\* a poll returned three records in two partitions; all three were processed
\* in order, the reporter was checked once, and the next poll is due
C17_Witness ==
    /\ c_pc = "poll"
    /\ poll_result = "batch"
    /\ polled = <<<<1, 2>>, <<3>>>>
    /\ handled = <<1, 2, 3>>
    /\ checks = 1
    /\ calls = 3

\* C18: the success rate shown in a periodic snapshot or in the final
\* statistics lies between 0 and 100 inclusive.
C18_RateInRange ==
    shown_rate # <<>> =>
        (0 <= shown_rate[1] /\ shown_rate[1] <= 100 * shown_rate[2])

\* -------------------------------------------------------- generate_tick
\* the draws of one call: random.gauss(0, 1), in whole standard deviations,
\* and random.randint(100, 2000)
Draws == {<<-60, 100>>, <<-1, 2000>>, <<0, 100>>, <<1, 2000>>}

Abs(x) == IF x < 0 THEN -x ELSE x

Sign(x) == IF x < 0 THEN -1 ELSE 1

\* <<q, r>> with a * b = q * d + r and 0 <= r < d, for a, b >= 0 and d > 0,
\* without forming a * b
RECURSIVE MulDivQR(_, _, _)
MulDivQR(a, b, d) ==
    IF b = 0 THEN <<0, 0>>
    ELSE LET h == MulDivQR(a, b \div 2, d)
             q2 == 2 * h[1] + (IF b % 2 = 1 THEN a \div d ELSE 0)
             r2 == 2 * h[2] + (IF b % 2 = 1 THEN a % d ELSE 0)
         IN <<q2 + r2 \div d, r2 % d>>

\* a * b / d, cut to a whole number of units
MulDiv(a, b, d) == Sign(a) * Sign(b) * MulDivQR(Abs(a), Abs(b), d)[1]

PriceChange(stock_data, random_factor) ==
    MulDiv(stock_data.price, stock_data.trend, 10000)
    + MulDiv(stock_data.price, stock_data.volatility * random_factor, 1000)

floor_price == 100

\* an update without the floor
NewPrice_NoFloor(price, price_change) == price + price_change

NewPrice(price, price_change) ==
    IF price + price_change < floor_price THEN floor_price ELSE price + price_change

\* round(new_price, 2): to the nearest cent, a half to the even cent
RoundCents(p) ==
    LET q == p \div 100
        r == p % 100
    IN IF r > 50 \/ (r = 50 /\ q % 2 = 1) THEN q + 1 ELSE q

\* a volume that is only the part scaled by the price move
Volume_MoveOnly(base_volume, price_change, new_price) ==
    MulDivQR(Abs(price_change), base_volume * 10, Abs(new_price))[1]

\* int(base_volume * (1 + abs(price_change / stock_data['price']) * 10)),
\* stock_data['price'] being the new price already
Volume(base_volume, price_change, new_price) ==
    base_volume + MulDivQR(Abs(price_change), base_volume * 10, Abs(new_price))[1]

\* a generator that starts every tick from the price of setup_stock_data
GenerateTick_FromSetup(symbol, random_factor, base_volume) ==
    LET stock_data == InitialStocks[symbol]
        price_change == PriceChange(stock_data, random_factor)
        new_price == NewPrice(stock_data.price, price_change)
    IN /\ stocks' = [stocks EXCEPT ![symbol].price = new_price]
       /\ tick' = [fields |-> Fields, symbol |-> symbol,
                   price |-> RoundCents(new_price),
                   volume |-> Volume(base_volume, price_change, new_price)]
       /\ ticks' = ticks + 1

GenerateTick(symbol, random_factor, base_volume) ==
    LET stock_data == stocks[symbol]
        price_change == PriceChange(stock_data, random_factor)
        new_price == NewPrice(stock_data.price, price_change)
    IN /\ stocks' = [stocks EXCEPT ![symbol].price = new_price]
       /\ tick' = [fields |-> Fields, symbol |-> symbol,
                   price |-> RoundCents(new_price),
                   volume |-> Volume(base_volume, price_change, new_price)]
       /\ ticks' = ticks + 1

\* generate_tick called again and again, as a test of the Simulator calls it
SimStep ==
    /\ ticks < MaxTicks
    /\ \E symbol \in StockSymbols : \E d \in Draws : GenerateTick(symbol, d[1], d[2])
    /\ UNCHANGED <<p_pc, p_running, producer, pstartvars, sendvars, pexitvars,
                   p_cleanups, latevars>>
    /\ UNCHANGED cvars

SpecSim == Init /\ [][SimStep]_vars

\* ---------------------------------------------------- generate_tick claims
\* C6 as stated: no stored price and no emitted price is ever <= 0.01.
C6_PriceAboveFloor ==
    /\ \A s \in StockSymbols : stocks[s].price > 100
    /\ ticks > 0 => tick.price > 1

\* C6 as amended: no stored price and no emitted price is ever < 0.01.
C6_PriceAtLeastFloor ==
    /\ \A s \in StockSymbols : stocks[s].price >= 100
    /\ ticks > 0 => tick.price >= 1

\* a draw took a symbol to the floor: its price is 0.01, stored and emitted
C6_Witness ==
    /\ ticks > 0
    /\ stocks[tick.symbol].price = 100
    /\ tick.price = 1

\* C16: generate_tick(symbol) changes only the stored price of that symbol.
\* The tracked symbols, every symbol's volatility and trend, and the whole
\* state of the other symbols stay as setup_stock_data left them, and the new
\* price is the price the previous call for that symbol left, moved by this
\* call's draw.
C16_FixedParameters ==
    /\ DOMAIN stocks = StockSymbols
    /\ \A s \in StockSymbols :
         /\ stocks[s].volatility = InitialStocks[s].volatility
         /\ stocks[s].trend = InitialStocks[s].trend

C16_GenerateStep ==
    ticks' = ticks + 1 =>
        LET symbol == tick'.symbol IN
        /\ DOMAIN stocks' = DOMAIN stocks
        /\ \A other \in StockSymbols \ {symbol} : stocks'[other] = stocks[other]
        /\ stocks'[symbol].volatility = stocks[symbol].volatility
        /\ stocks'[symbol].trend = stocks[symbol].trend
        /\ \E d \in Draws :
             stocks'[symbol].price =
                 NewPrice(stocks[symbol].price, PriceChange(stocks[symbol], d[1]))

C16_OnlyPriceCarriedForward == [](C16_FixedParameters) /\ [][C16_GenerateStep]_vars

\* two calls for AAPL with a draw of one standard deviation: the second price
\* is computed from the first, the other symbols are as set up
C16_Witness ==
    LET setup == InitialStocks["AAPL"]
        first == NewPrice(setup.price, PriceChange(setup, 1))
        after == [setup EXCEPT !.price = first]
        second == NewPrice(first, PriceChange(after, 1))
    IN /\ ticks = 2
       /\ stocks["AAPL"].price = second
       /\ second > first
       /\ \A other \in StockSymbols \ {"AAPL"} : stocks[other] = InitialStocks[other]

\* ------------------------------------------------- from tick to message
\* value_serializer: json.dumps(v).encode('utf-8'). The dict becomes a JSON
\* object with one member per key; a float or an int becomes a JSON number,
\* a str a JSON string
Serialize(t) ==
    [f \in t.fields |->
        CASE f = "symbol" -> [json |-> "string", s |-> t.symbol, n |-> 0]
          [] f = "timestamp" -> [json |-> "string", s |-> "isoformat", n |-> 0]
          [] f = "price" -> [json |-> "number", s |-> "", n |-> t.price]
          [] f = "volume" -> [json |-> "number", s |-> "", n |-> t.volume]]

\* what json.loads makes of one member, as process_message will use it
Decoded(member) == IF member.json = "number" THEN Num(member.n) ELSE Str

\* value_deserializer: json.loads(m.decode('utf-8')) gives a dict with the
\* keys of the object
Deserialize(w) ==
    [fields |-> DOMAIN w,
     symbol |-> IF "symbol" \in DOMAIN w THEN w["symbol"].s ELSE "",
     price |-> IF "price" \in DOMAIN w THEN Decoded(w["price"]) ELSE Num(0),
     volume |-> IF "volume" \in DOMAIN w THEN Decoded(w["volume"]) ELSE Num(0)]

\* one tick from generate_tick through the serializer, the topic and the
\* deserializer into process_message
PipeStep ==
    /\ ticks < MaxTicks
    /\ calls < MaxCalls
    /\ \E symbol \in StockSymbols : \E d \in Draws : GenerateTick(symbol, d[1], d[2])
    /\ ProcessMessage(Deserialize(Serialize(tick')))
    /\ UNCHANGED <<c_pc, c_running, consumer, startvars, clockvars, batch,
                   exitvars, obsvars, bad_payload, pollvars, shown_rate, c_logged, c_cleanups>>
    /\ UNCHANGED <<p_pc, p_running, producer, pstartvars, sendvars, pexitvars,
                   p_cleanups, latevars>>

\* a record of another publisher on the same topic
ForeignStep ==
    /\ calls < MaxCalls
    /\ \E rec \in LoopRecords : ProcessMessage(rec)
    /\ UNCHANGED <<c_pc, c_running, consumer, startvars, clockvars, batch,
                   exitvars, obsvars, bad_payload, pollvars, shown_rate, c_logged, c_cleanups>>
    /\ UNCHANGED pvars

NextPipe ==
    \/ PipeStep
    \/ ForeignStep

SpecPipe == Init /\ [][NextPipe]_vars

\* C21: every record generate_tick returns has exactly the four fields
\* symbol, price, timestamp, volume, a price of at least 0.01 and a whole
\* volume of at least 100; process_message accepts it and counts it as a
\* message, never as an error, whatever was processed before.
C21_TickShape ==
    ticks > 0 =>
        /\ tick.fields = {"symbol", "price", "timestamp", "volume"}
        /\ tick.symbol \in StockSymbols
        /\ tick.price >= 1
        /\ tick.volume >= 100

C21_TickStep ==
    ticks' = ticks + 1 =>
        /\ last_msg' = Deserialize(Serialize(tick'))
        /\ HasRequiredFields(last_msg')
        /\ last_result' = "ok"
        /\ message_count' = message_count + 1
        /\ error_count' = error_count

C21_GeneratedTickAccepted == [](C21_TickShape) /\ [][C21_TickStep]_vars

\* a tick at the floor price, generated after a draw of sixty standard
\* deviations, was accepted after a wrong-typed record for the same symbol
C21_Witness ==
    /\ ticks = 1
    /\ tick.symbol = "AAPL"
    /\ tick.price = 1
    /\ last_msg = Deserialize(Serialize(tick))
    /\ last_result = "ok"
    /\ message_count = 1
    /\ error_count = 1
    /\ symbol_stats["AAPL"].count = 2

\* ------------------------------------------------------ create_producer
\* one pass of the for loop of create_producer (the same loop as
\* create_consumer's, with its own max_retries = 5 and retry_delay = 2)
P_CreateProducer ==
    /\ p_pc = "create"
    /\ p_tries' = p_tries + 1
    /\ \E ok \in BOOLEAN :
        IF ok
        THEN /\ producer' = "open"
             /\ p_pc' = "loop"
             /\ UNCHANGED <<p_attempt, p_sleeps, p_status>>
        ELSE IF RetriesLeft(p_attempt)
        THEN /\ p_sleeps' = Append(p_sleeps, RetryDelay(p_attempt))
             /\ p_attempt' = p_attempt + 1
             /\ UNCHANGED <<p_pc, producer, p_status>>
        ELSE /\ p_status' = 1
             /\ p_pc' = "cleanup"
             /\ UNCHANGED <<producer, p_attempt, p_sleeps>>
    /\ UNCHANGED <<p_running, simvars, sendvars, p_exit, p_flushed, p_logged,
                   p_cleanups, latevars>>
    /\ UNCHANGED cvars

P_Signal ==
    /\ p_pc # "exited"
    /\ p_running
    /\ p_running' = FALSE
    /\ UNCHANGED <<p_pc, producer, pstartvars, simvars, sendvars, pexitvars,
                   p_cleanups, latevars>>
    /\ UNCHANGED cvars

\* ------------------------------------------------------- producer run
\* while self.running:
\* a loop that does not look at the flag
GoesOn_Always(running) == TRUE

\* the while test
GoesOn(running) == running

P_While ==
    /\ p_pc = "loop"
    /\ GoesOn(p_running) => ticks < MaxSends
    /\ p_pc' = IF GoesOn(p_running) THEN "generate" ELSE "cleanup"
    /\ p_observed' = (p_observed \/ ~p_running)
    /\ UNCHANGED <<p_running, producer, pstartvars, simvars, sendvars, pexitvars,
                   p_cleanups, sends, late_ticks, late_sends>>
    /\ UNCHANGED cvars

\* the draws of the ticks generated in the loop
LoopDraws == {<<-60, 100>>, <<1, 2000>>}

\* symbol = random.choice(...); tick_data = self.generate_tick(symbol)
P_Generate ==
    /\ p_pc = "generate"
    /\ \E symbol \in StockSymbols : \E d \in LoopDraws :
         GenerateTick(symbol, d[1], d[2])
    /\ late_ticks' = IF p_running THEN late_ticks ELSE late_ticks + 1
    /\ p_pc' = "send"
    /\ UNCHANGED <<p_running, producer, pstartvars, sendvars, pexitvars,
                   p_cleanups, sends, p_observed, late_sends>>
    /\ UNCHANGED cvars

\* how self.producer.send(...) and future.get(timeout=10) can end: metadata
\* returned, KafkaTimeoutError, another KafkaError, any other exception
SendOutcomes == {"ok", "timeout", "kafka_error", "error"}

\* a send_tick that counts the message before the acknowledgement
SendCounts_Early(outcome) == TRUE

\* self.message_count += 1 is reached only when future.get returned
SendCounts(outcome) == outcome = "ok"

\* send_tick: every exception is caught and logged, False is returned
P_Send ==
    /\ p_pc = "send"
    /\ \E outcome \in SendOutcomes :
        /\ send_result' = outcome
        /\ p_message_count' =
             IF SendCounts(outcome) THEN p_message_count + 1 ELSE p_message_count
    /\ sends' = sends + 1
    /\ late_sends' = IF p_running THEN late_sends ELSE late_sends + 1
    /\ p_pc' = "sleep"
    /\ UNCHANGED <<p_running, producer, pstartvars, simvars, pexitvars,
                   p_cleanups, p_observed, late_ticks>>
    /\ UNCHANGED cvars

\* time.sleep(self.interval)
P_Sleep ==
    /\ p_pc = "sleep"
    /\ p_pc' = "loop"
    /\ UNCHANGED <<p_running, producer, pstartvars, simvars, sendvars, pexitvars,
                   p_cleanups, latevars>>
    /\ UNCHANGED cvars

\* how flush and close end, both inside one try: an exception of flush skips
\* close
CloseOutcomes == {"closed", "flush_failed", "close_failed"}

\* cleanup: an exception of flush or close is logged, then "Producer shutdown
\* complete" is logged; were it not caught it would leave the finally block
\* and end the process with status 1
P_Cleanup ==
    /\ p_pc = "cleanup"
    /\ IF producer = "open"
       THEN \E outcome \in CloseOutcomes :
              /\ producer' = outcome
              /\ p_flushed' = (outcome # "flush_failed")
              /\ IF CloseCaught(outcome)
                 THEN p_logged' = TRUE /\ p_exit' = p_status
                 ELSE p_logged' = FALSE /\ p_exit' = 1
       ELSE /\ p_logged' = TRUE
            /\ p_exit' = p_status
            /\ UNCHANGED <<producer, p_flushed>>
    /\ p_cleanups' = p_cleanups + 1
    /\ p_pc' = "exited"
    /\ UNCHANGED <<p_running, pstartvars, simvars, sendvars, p_status, latevars>>
    /\ UNCHANGED cvars

PNext ==
    \/ P_CreateProducer
    \/ P_Signal
    \/ P_While
    \/ P_Generate
    \/ P_Send
    \/ P_Sleep
    \/ P_Cleanup

SpecProd == Init /\ [][PNext]_vars

\* --------------------------------------------------- producer run claims
\* C11: a publish that fails with a timeout or a transport error makes
\* send_tick return False without counting the message; running is left as
\* it was, the loop sleeps, and with running true it generates the next tick.
C11_SendFailureStep ==
    /\ (p_pc = "send" /\ p_pc' # "send"
          /\ send_result' \in {"timeout", "kafka_error"}) =>
         /\ p_message_count' = p_message_count
         /\ p_running' = p_running
         /\ p_status' = 0
         /\ p_pc' = "sleep"
    /\ (p_pc = "sleep" /\ p_pc' # "sleep") => p_pc' = "loop"
    /\ (p_pc = "loop" /\ p_pc' # "loop" /\ p_running) => p_pc' = "generate"
    /\ (p_pc = "generate" /\ p_pc' # "generate") => (p_pc' = "send" /\ ticks' = ticks + 1)

C11_SendFailureNotFatal == [][C11_SendFailureStep]_vars

\* the first publish timed out, nothing was counted, and the second tick has
\* been generated
C11_Witness ==
    /\ send_result = "timeout"
    /\ p_message_count = 0
    /\ ticks = 2
    /\ p_pc = "send"
    /\ p_running

\* C22: after the signal handler has set running to False the Generator
\* generates at most one more tick and publishes at most one more, those of
\* the iteration in progress; once the while test has read the flag as False
\* nothing is generated or published; flush and close come only after every
\* send_tick call has returned.
C22_AtMostOneLate ==
    /\ late_ticks <= 1
    /\ late_sends <= 1
    /\ late_ticks <= late_sends + (IF p_pc = "send" THEN 1 ELSE 0)
    /\ p_observed => (~p_running /\ p_pc \in {"cleanup", "exited"})
    /\ (p_flushed \/ producer \in {"closed", "flush_failed", "close_failed"}) =>
         (p_pc = "exited" /\ sends = ticks)

C22_AfterObservationStep ==
    (p_observed \/ p_pc \in {"cleanup", "exited"}) =>
        (ticks' = ticks /\ sends' = sends /\ p_message_count' = p_message_count)

C22_CooperativeShutdown == [](C22_AtMostOneLate) /\ [][C22_AfterObservationStep]_vars

\* the signal came between the while test and generate_tick: the second tick
\* was generated and published after it, then the loop ended and the producer
\* was flushed and closed
C22_Witness ==
    /\ p_pc = "exited"
    /\ producer = "closed"
    /\ p_flushed
    /\ p_observed
    /\ ticks = 2
    /\ sends = 2
    /\ late_ticks = 1
    /\ late_sends = 1
    /\ p_message_count = 2

\* both processes from run() up to their main loops
NextStartup ==
    \/ C_CreateConsumer
    \/ C_Signal
    \/ C_Cleanup
    \/ P_CreateProducer
    \/ P_Signal
    \/ P_Cleanup

SpecStartup == Init /\ [][NextStartup]_vars

\* ------------------------------------------------------- startup claims
\* what C10 says of one process: at most 5 attempts, a wait of 2 * 2^k seconds
\* after the k-th failure (k = 0..3), no attempt after a success, and after
\* five failures exit status 1 without the main loop
StartupAsClaimed(pc, handle, tries, sleeps, status, exit) ==
    /\ tries <= 5
    /\ sleeps = SubSeq(<<2, 4, 8, 16>>, 1, Len(sleeps))
    /\ pc = "create" => (handle = "none" /\ Len(sleeps) = tries)
    /\ pc = "loop" => (handle = "open" /\ tries = Len(sleeps) + 1 /\ status = 0)
    /\ pc \in {"cleanup", "exited"} =>
         (handle = "none" /\ tries = 5 /\ Len(sleeps) = 4 /\ status = 1)
    /\ pc = "exited" => exit = 1

\* C10: create_consumer and create_producer both start up as claimed.
C10_StartupRetries ==
    /\ c_pc \in {"create", "loop", "cleanup", "exited"}
    /\ p_pc \in {"create", "loop", "cleanup", "exited"}
    /\ StartupAsClaimed(c_pc, consumer, c_tries, c_sleeps, c_status, c_exit)
    /\ StartupAsClaimed(p_pc, producer, p_tries, p_sleeps, p_status, p_exit)

\* the consumer gave up after five failures and left with status 1; the
\* producer connected at its third attempt
C10_Witness ==
    /\ c_pc = "exited"
    /\ c_exit = 1
    /\ c_tries = 5
    /\ c_sleeps = <<2, 4, 8, 16>>
    /\ p_pc = "loop"
    /\ p_tries = 3
    /\ p_sleeps = <<2, 4>>

\* ------------------------------------------------------ shutdown claims
\* a process that has not started and has received no signal
C_Idle == c_pc = "create" /\ c_tries = 0 /\ c_running

P_Idle == p_pc = "create" /\ p_tries = 0 /\ p_running

\* the Processor and the Generator are two operating system processes that
\* share no state: each is run from start to exit while the other is idle
NextEach ==
    \/ (P_Idle /\ Next)
    \/ (C_Idle /\ PNext)

SpecEach == Init /\ [][NextEach]_vars

\* C14: an exception of close (or of flush, in the Generator) during cleanup
\* does not stop the shutdown: the Processor has printed its final statistics
\* with the cumulative message count, each process has logged its shutdown
\* completion, and the exit status is the one decided before cleanup.
C14_CloseFailureNotFatal ==
    /\ consumer = "close_failed" =>
         /\ c_pc = "exited"
         /\ final_count = message_count
         /\ c_logged
         /\ c_exit = c_status
    /\ producer \in {"flush_failed", "close_failed"} =>
         /\ p_pc = "exited"
         /\ p_logged
         /\ p_exit = p_status

\* after a signal the Processor's close raised: one message is shown in the
\* final statistics and the exit status is 0
C14_Witness ==
    /\ consumer = "close_failed"
    /\ ~c_running
    /\ message_count = 1
    /\ final_count = 1
    /\ c_logged
    /\ c_exit = 0

\* C23: on every path out of run(), in either process, cleanup has run exactly
\* once; an unexpected exception that escaped the main loop (status 1 set by
\* except Exception) ends the process with exit status 1; and close has been
\* called on a transport handle that was created.
C23_CleanupOnEveryExit ==
    /\ c_cleanups <= 1
    /\ p_cleanups <= 1
    /\ c_pc = "exited" =>
         /\ c_cleanups = 1
         /\ c_status = 1 => c_exit = 1
         /\ consumer # "none" => consumer \in {"closed", "close_failed"}
    /\ p_pc = "exited" =>
         /\ p_cleanups = 1
         /\ p_status = 1 => p_exit = 1
         /\ producer # "none" => producer \in {"closed", "close_failed"}

====
